---- MODULE Spec2Model ----
(***************************************************************************)
(* Model of src/attribution_report.py: the AppsFlyer monthly attribution   *)
(* report.  Strings are sequences of one-character strings so that         *)
(* strip / lower / endswith / substring tests are computed, not assumed.   *)
(* A pandas cell is a tagged record: Str(s), Num(n), Bool(b), NaN, None.   *)
(* A DataFrame is [columns |-> sequence of names, rows |-> sequence of     *)
(* functions from the column names to cells].                              *)
(***************************************************************************)
EXTENDS Integers, Sequences, FiniteSets, TLC

VARIABLES
    app,            \* which process_*_app is running: "kikoff", "grant", or "none"
    pc,             \* position inside the running function
    value,          \* argument of parse_lookback_to_hours
    hours,          \* its return value
    delivered_df,   \* delivered_df of process_*_app
    fraud_df,       \* fraud_df of process_*_app
    flagged_df,     \* flagged_events_df / addl_fraud_df
    delivered_agg,  \* aggregate_by_agency(delivered_df, "delivered")
    fraud_agg,      \* aggregate_by_agency(fraud_df, "fraud")
    flagged_agg,    \* aggregate_by_agency(flagged, ...)
    summary_df,     \* summary_df
    raised          \* name of the exception that left the function, or "none"

vars == <<app, pc, value, hours, delivered_df, fraud_df, flagged_df,
          delivered_agg, fraud_agg, flagged_agg, summary_df, raised>>

(***************************************************************************)
(* Bounds of the model.                                                    *)
(***************************************************************************)
MaxLen == 4         \* longest lookback string given to the parser

MaxRows == 2        \* most rows of the iOS delivered report

MaxFraudRows == 2   \* most rows of the iOS fraud report

MaxValueLen == 4    \* longest event value of the value-pattern reports

(***************************************************************************)
(* Cells.                                                                  *)
(***************************************************************************)
Str(s)  == [t |-> "str", s |-> s]
Num(n)  == [t |-> "num", n |-> n]
Bool(b) == [t |-> "bool", b |-> b]
NaN     == [t |-> "nan"]
None    == [t |-> "none"]

IsStr(c) == c.t = "str"
IsNum(c) == c.t = "num"

\* pd.isna(value): None and NaN are missing
IsNa(c) == c.t \in {"nan", "none"}

(***************************************************************************)
(* Python str methods on character sequences.                              *)
(***************************************************************************)
Digits == <<"0", "1", "2", "3", "4", "5", "6", "7", "8", "9">>

IsDigit(c) == \E i \in 1..10 : Digits[i] = c

DigitVal(c) == (CHOOSE i \in 1..10 : Digits[i] = c) - 1

Uppers == <<"A","B","C","D","E","F","G","H","I","J","K","L","M",
            "N","O","P","Q","R","S","T","U","V","W","X","Y","Z">>

Lowers == <<"a","b","c","d","e","f","g","h","i","j","k","l","m",
            "n","o","p","q","r","s","t","u","v","w","x","y","z">>

\* str.lower() on one character
LowerChar(c) ==
    IF \E i \in 1..26 : Uppers[i] = c
    THEN Lowers[CHOOSE i \in 1..26 : Uppers[i] = c]
    ELSE c

\* str.lower()
LowerStr(s) == [i \in 1..Len(s) |-> LowerChar(s[i])]

IsSpace(c) == c = " "

RECURSIVE LStrip(_)
LStrip(s) == IF s # <<>> /\ IsSpace(Head(s)) THEN LStrip(Tail(s)) ELSE s

RECURSIVE RStrip(_)
RStrip(s) ==
    IF s # <<>> /\ IsSpace(s[Len(s)]) THEN RStrip(SubSeq(s, 1, Len(s) - 1)) ELSE s

\* str.strip()
Strip(s) == RStrip(LStrip(s))

\* str.replace(' ', '_')
ReplaceSpace(s) == [i \in 1..Len(s) |-> IF s[i] = " " THEN "_" ELSE s[i]]

\* sub in s
Contains(s, sub) ==
    \E i \in 1..(Len(s) - Len(sub) + 1) : SubSeq(s, i, i + Len(sub) - 1) = sub

\* s.endswith(c) for a one-character suffix
EndsWith(s, c) == s # <<>> /\ s[Len(s)] = c

\* s[:-1]
DropLast(s) == IF s = <<>> THEN <<>> ELSE SubSeq(s, 1, Len(s) - 1)

RECURSIVE DigitsValue(_)
DigitsValue(s) ==
    IF s = <<>> THEN 0 ELSE DigitsValue(DropLast(s)) * 10 + DigitVal(s[Len(s)])

RECURSIVE NatToStr(_)
NatToStr(n) ==
    IF n < 10 THEN <<Digits[n + 1]>> ELSE NatToStr(n \div 10) \o <<Digits[(n % 10) + 1]>>

\* str(n) for an int
IntToStr(n) == IF n < 0 THEN <<"-">> \o NatToStr(-n) ELSE NatToStr(n)

\* float(s): surrounding whitespace is ignored, then an optional sign and a
\* non-empty run of digits.  [ok |-> FALSE] stands for ValueError.  The
\* characters of the model's strings cannot spell a decimal point, an
\* exponent, an underscore, "inf" or "nan", the other forms float() accepts.
PyFloat(s) ==
    LET t == Strip(s)
        neg == t # <<>> /\ Head(t) = "-"
        body == IF neg THEN Tail(t) ELSE t
    IN  IF body # <<>> /\ \A i \in 1..Len(body) : IsDigit(body[i])
        THEN [ok |-> TRUE, v |-> IF neg THEN -DigitsValue(body) ELSE DigitsValue(body)]
        ELSE [ok |-> FALSE, v |-> 0]

\* str(value) of a cell
PyStr(c) ==
    CASE c.t = "str" -> c.s
      [] c.t = "num" -> IntToStr(c.n)
      [] c.t = "bool" -> IF c.b THEN <<"T","r","u","e">> ELSE <<"F","a","l","s","e">>
      [] c.t = "nan" -> <<"n","a","n">>
      [] c.t = "none" -> <<"N","o","n","e">>

(***************************************************************************)
(* String literals of the source, as character sequences.                  *)
(***************************************************************************)
AGENCY == <<"a", "g", "e", "n", "c", "y">>

PARTNER == <<"p", "a", "r", "t", "n", "e", "r">>

AF_PRT == <<"a", "f", "_", "p", "r", "t">>

MEDIA_SOURCE == <<"m", "e", "d", "i", "a", "_", "s", "o", "u", "r", "c", "e">>

ATTRIBUTED_TOUCH_TYPE == <<"a", "t", "t", "r", "i", "b", "u", "t", "e", "d", "_", "t", "o", "u", "c", "h", "_", "t", "y", "p", "e">>

TOUCH_TYPE == <<"t", "o", "u", "c", "h", "_", "t", "y", "p", "e">>

ATTRIBUTION_LOOKBACK == <<"a", "t", "t", "r", "i", "b", "u", "t", "i", "o", "n", "_", "l", "o", "o", "k", "b", "a", "c", "k">>

LOOKBACK == <<"l", "o", "o", "k", "b", "a", "c", "k">>

TIME_TO_INSTALL == <<"t", "i", "m", "e", "_", "t", "o", "_", "i", "n", "s", "t", "a", "l", "l">>

EVENT_VALUE == <<"e", "v", "e", "n", "t", "_", "v", "a", "l", "u", "e">>

EVENT_REVENUE == <<"e", "v", "e", "n", "t", "_", "r", "e", "v", "e", "n", "u", "e">>

REVENUE == <<"r", "e", "v", "e", "n", "u", "e">>

PLATFORM == <<"p", "l", "a", "t", "f", "o", "r", "m">>

AGENCY_NORMALIZED == <<"a", "g", "e", "n", "c", "y", "_", "n", "o", "r", "m", "a", "l", "i", "z", "e", "d">>

TOUCH_TYPE_NORMALIZED == <<"t", "o", "u", "c", "h", "_", "t", "y", "p", "e", "_", "n", "o", "r", "m", "a", "l", "i", "z", "e", "d">>

LOOKBACK_HOURS == <<"l", "o", "o", "k", "b", "a", "c", "k", "_", "h", "o", "u", "r", "s">>

IS_FLAGGED == <<"i", "s", "_", "f", "l", "a", "g", "g", "e", "d">>

FLAG_REASON == <<"f", "l", "a", "g", "_", "r", "e", "a", "s", "o", "n">>

MATCH_KEY == <<"_", "m", "a", "t", "c", "h", "_", "k", "e", "y">>

EVENT_VALUE_STR == <<"_", "e", "v", "e", "n", "t", "_", "v", "a", "l", "u", "e", "_", "s", "t", "r">>

CUSTOMER == <<"c", "u", "s", "t", "o", "m", "e", "r">>

APPSFLYER == <<"a", "p", "p", "s", "f", "l", "y", "e", "r">>

ID == <<"i", "d">>

UNKNOWN == <<"u", "n", "k", "n", "o", "w", "n">>

IMPRESSION == <<"i", "m", "p", "r", "e", "s", "s", "i", "o", "n">>

CLICK == <<"c", "l", "i", "c", "k">>

ORGANIC == <<"o", "r", "g", "a", "n", "i", "c">>

IOS == <<"i", "o", "s">>

ANDROID == <<"a", "n", "d", "r", "o", "i", "d">>

ADPERIOMEDIA == <<"a", "d", "p", "e", "r", "i", "o", "m", "e", "d", "i", "a">>

GLOBALWIDEMEDIA == <<"g", "l", "o", "b", "a", "l", "w", "i", "d", "e", "m", "e", "d", "i", "a">>

MOBIPROBEBD521 == <<"m", "o", "b", "i", "p", "r", "o", "b", "e", "b", "d", "5", "2", "1">>

UNAUTHORIZED_VTA == <<"U", "n", "a", "u", "t", "h", "o", "r", "i", "z", "e", "d", " ", "V", "T", "A">>

VTA_WINDOW_EXCEEDED == <<"V", "T", "A", " ", "W", "i", "n", "d", "o", "w", " ", "E", "x", "c", "e", "e", "d", "e", "d", " ", "(", ">", "6", "h", ")">>

CTA_WINDOW_EXCEEDED == <<"C", "T", "A", " ", "W", "i", "n", "d", "o", "w", " ", "E", "x", "c", "e", "e", "d", "e", "d", " ", "(", ">", "7", "d", ")">>

BRACE_PATTERN == <<"0", "0", "}">>

HdrPartner == <<"P", "a", "r", "t", "n", "e", "r">>

HdrMediaSource == <<"M", "e", "d", "i", "a", " ", "S", "o", "u", "r", "c", "e">>

HdrTouchType == <<"A", "t", "t", "r", "i", "b", "u", "t", "e", "d", " ", "T", "o", "u", "c", "h", " ", "T", "y", "p", "e">>

HdrLookback == <<"A", "t", "t", "r", "i", "b", "u", "t", "i", "o", "n", " ", "L", "o", "o", "k", "b", "a", "c", "k">>

HdrCustomerUserId == <<"C", "u", "s", "t", "o", "m", "e", "r", " ", "U", "s", "e", "r", " ", "I", "D">>

HdrAppsFlyerId == <<"A", "p", "p", "s", "F", "l", "y", "e", "r", " ", "I", "D">>

HdrEventValue == <<"E", "v", "e", "n", "t", " ", "V", "a", "l", "u", "e">>

(***************************************************************************)
(* parse_lookback_to_hours                                                 *)
(***************************************************************************)
\* LookbackTry with the day suffix taken as hours
LookbackTry_DaysAsHours(v) ==
    IF EndsWith(v, "d") \/ EndsWith(v, "h")
    THEN PyFloat(DropLast(v))
    ELSE PyFloat(v)

\* the body of the try block, after value = str(value).strip().lower()
LookbackTry(v) ==
    IF EndsWith(v, "d")
    THEN LET f == PyFloat(DropLast(v)) IN [ok |-> f.ok, v |-> f.v * 24]
    ELSE IF EndsWith(v, "h")
    THEN PyFloat(DropLast(v))
    ELSE PyFloat(v)

parse_lookback_to_hours(c) ==
    IF IsNa(c) \/ c = Str(<<>>)
    THEN 0
    ELSE LET r == LookbackTry(LowerStr(Strip(PyStr(c))))
         IN  IF r.ok THEN r.v ELSE 0

(***************************************************************************)
(* Configuration (module level of the source).                             *)
(***************************************************************************)
VTA_AUTHORIZED_AGENCIES == {ADPERIOMEDIA, GLOBALWIDEMEDIA}

VTA_WINDOW_HOURS == 6

CTA_WINDOW_DAYS == 7

GRANT_EXCLUDED_AGENCIES == {MOBIPROBEBD521, UNKNOWN, <<>>}

AgencyCandidates == <<AGENCY, PARTNER, AF_PRT, MEDIA_SOURCE>>

TouchTypeCandidates == <<ATTRIBUTED_TOUCH_TYPE, TOUCH_TYPE>>

LookbackCandidates == <<ATTRIBUTION_LOOKBACK, LOOKBACK, TIME_TO_INSTALL>>

EventValueCandidates == <<EVENT_VALUE, EVENT_REVENUE, REVENUE>>

(***************************************************************************)
(* pandas DataFrame operations.                                            *)
(***************************************************************************)
Range(s) == {s[i] : i \in 1..Len(s)}

\* pd.DataFrame()
EmptyFrame == [columns |-> <<>>, rows |-> <<>>]

\* df.empty: no rows or no columns
IsEmpty(df) == df.rows = <<>> \/ df.columns = <<>>

\* col in df.columns
HasCol(df, c) == c \in Range(df.columns)

\* df[mask]: the rows for which Keep holds, in their order
FilterRows(df, Keep(_)) == [df EXCEPT !.rows = SelectSeq(df.rows, Keep)]

\* df[name] = vals: an existing column is overwritten in place, a new one is
\* appended as the last column
SetColumn(df, name, vals) ==
    [columns |-> IF HasCol(df, name) THEN df.columns ELSE Append(df.columns, name),
     rows |-> [k \in 1..Len(df.rows) |->
                 [c \in Range(df.columns) \cup {name} |->
                     IF c = name THEN vals[k] ELSE df.rows[k][c]]]]

\* DropColumns that drops nothing
DropColumns_Nothing(df, names) == df

\* df.drop(columns=names, errors='ignore')
DropColumns(df, names) ==
    [columns |-> SelectSeq(df.columns, LAMBDA c : c \notin names),
     rows |-> [k \in 1..Len(df.rows) |->
                 [c \in Range(df.columns) \ names |-> df.rows[k][c]]]]

\* one field name through .str.strip().str.lower().str.replace(' ', '_')
NormalizeName(c) == ReplaceSpace(LowerStr(Strip(c)))

\* df.columns = df.columns.str.strip().str.lower().str.replace(' ', '_')
\* (a frame whose names are all in normal form already is returned as it is)
NormalizeColumns(df) ==
    IF \A i \in 1..Len(df.columns) : NormalizeName(df.columns[i]) = df.columns[i]
    THEN df
    ELSE [columns |-> [i \in 1..Len(df.columns) |-> NormalizeName(df.columns[i])],
          rows |-> [k \in 1..Len(df.rows) |->
                      [n \in {NormalizeName(c) : c \in Range(df.columns)} |->
                          df.rows[k][CHOOSE c \in Range(df.columns) : NormalizeName(c) = n]]]]

RECURSIVE AppendNew(_, _)
\* the names of more that are not in cols, appended to cols in their order
AppendNew(cols, more) ==
    IF more = <<>> THEN cols
    ELSE AppendNew(IF Head(more) \in Range(cols) THEN cols ELSE Append(cols, Head(more)),
                   Tail(more))

\* the rows of df over the columns cols, NaN where df has no such column
Reindex(df, cols) ==
    [k \in 1..Len(df.rows) |->
        [c \in Range(cols) |-> IF HasCol(df, c) THEN df.rows[k][c] ELSE NaN]]

\* pd.concat([a, b], ignore_index=True)
Concat2(a, b) ==
    LET cols == AppendNew(a.columns, b.columns)
    IN  [columns |-> cols, rows |-> Reindex(a, cols) \o Reindex(b, cols)]

\* FirstCandidate taking the first column of df that is a candidate
FirstCandidate_ColumnOrder(df, cands) ==
    LET hits == {i \in 1..Len(df.columns) : df.columns[i] \in Range(cands)}
    IN  IF hits = {} THEN <<>>
        ELSE df.columns[CHOOSE i \in hits : \A j \in hits : i <= j]

\* the first candidate that is a column of df, <<>> when there is none
\* (for col in [...]: if col in df.columns: ...; break)
RECURSIVE FirstCandidate(_, _)
FirstCandidate(df, cands) ==
    IF cands = <<>> THEN <<>>
    ELSE IF HasCol(df, Head(cands)) THEN Head(cands)
    ELSE FirstCandidate(df, Tail(cands))

\* series.fillna(fill).str.strip().str.lower() on one cell; the .str accessor
\* gives NaN for a cell that is not a string
NormalizeCell(c, fill) ==
    LET f == IF IsNa(c) THEN Str(fill) ELSE c
    IN  IF IsStr(f) THEN Str(LowerStr(Strip(f.s))) ELSE NaN

\* df["agency_normalized"] = ... for the resolved agency column, or "unknown"
WithAgencyNormalized(df) ==
    LET agency_col == FirstCandidate(df, AgencyCandidates)
    IN  SetColumn(df, AGENCY_NORMALIZED,
            [k \in 1..Len(df.rows) |->
                IF agency_col = <<>> THEN Str(UNKNOWN)
                ELSE NormalizeCell(df.rows[k][agency_col], UNKNOWN)])

(***************************************************************************)
(* Flagging: apply_kikoff_flagging_rules                                   *)
(***************************************************************************)
\* series.isin(values)
IsIn(c, values) == IsStr(c) /\ c.s \in values

\* Rule 1, the row's value of mask_unauthorized_vta
mask_unauthorized_vta(r) ==
    /\ r[TOUCH_TYPE_NORMALIZED] = Str(IMPRESSION)
    /\ ~IsIn(r[AGENCY_NORMALIZED], VTA_AUTHORIZED_AGENCIES)

\* mask_vta_window without the authorized-agency conjunct
mask_vta_window_AnyAgency(r) ==
    /\ r[TOUCH_TYPE_NORMALIZED] = Str(IMPRESSION)
    /\ r[LOOKBACK_HOURS].n > VTA_WINDOW_HOURS

\* Rule 2, the row's value of mask_vta_window
mask_vta_window(r) ==
    /\ r[TOUCH_TYPE_NORMALIZED] = Str(IMPRESSION)
    /\ IsIn(r[AGENCY_NORMALIZED], VTA_AUTHORIZED_AGENCIES)
    /\ r[LOOKBACK_HOURS].n > VTA_WINDOW_HOURS

\* mask_cta_window with a non-strict threshold
mask_cta_window_Inclusive(r) ==
    /\ r[TOUCH_TYPE_NORMALIZED] = Str(CLICK)
    /\ r[LOOKBACK_HOURS].n >= CTA_WINDOW_DAYS * 24

\* Rule 3, the row's value of mask_cta_window
mask_cta_window(r) ==
    /\ r[TOUCH_TYPE_NORMALIZED] = Str(CLICK)
    /\ r[LOOKBACK_HOURS].n > CTA_WINDOW_DAYS * 24

\* is_flagged / flag_reason of one row: the defaults, then the three
\* df.loc[mask, ...] = ... assignments in their order
FlagOf(r) ==
    LET s0 == [is_flagged |-> FALSE, flag_reason |-> <<>>]
        s1 == IF mask_unauthorized_vta(r)
              THEN [is_flagged |-> TRUE, flag_reason |-> UNAUTHORIZED_VTA] ELSE s0
        s2 == IF mask_vta_window(r)
              THEN [is_flagged |-> TRUE, flag_reason |-> VTA_WINDOW_EXCEEDED] ELSE s1
        s3 == IF mask_cta_window(r)
              THEN [is_flagged |-> TRUE, flag_reason |-> CTA_WINDOW_EXCEEDED] ELSE s2
    IN  s3

\* df["touch_type_normalized"] = ...
WithTouchTypeNormalized(df) ==
    LET touch_type_col == FirstCandidate(df, TouchTypeCandidates)
    IN  SetColumn(df, TOUCH_TYPE_NORMALIZED,
            [k \in 1..Len(df.rows) |->
                IF touch_type_col = <<>> THEN Str(UNKNOWN)
                ELSE NormalizeCell(df.rows[k][touch_type_col], <<>>)])

\* df["lookback_hours"] = ...
WithLookbackHours(df) ==
    LET lookback_col == FirstCandidate(df, LookbackCandidates)
    IN  SetColumn(df, LOOKBACK_HOURS,
            [k \in 1..Len(df.rows) |->
                IF lookback_col = <<>> THEN Num(0)
                ELSE Num(parse_lookback_to_hours(df.rows[k][lookback_col]))])

apply_kikoff_flagging_rules(df) ==
    IF IsEmpty(df)
    THEN SetColumn(SetColumn(df, IS_FLAGGED, <<>>), FLAG_REASON, <<>>)
    ELSE LET d1 == NormalizeColumns(df)
             d2 == WithAgencyNormalized(d1)
             d3 == WithTouchTypeNormalized(d2)
             d4 == WithLookbackHours(d3)
             d5 == SetColumn(d4, IS_FLAGGED,
                       [k \in 1..Len(d4.rows) |-> Bool(FlagOf(d4.rows[k]).is_flagged)])
         IN  SetColumn(d5, FLAG_REASON,
                 [k \in 1..Len(d4.rows) |-> Str(FlagOf(d4.rows[k]).flag_reason)])

(***************************************************************************)
(* pull_all_reports                                                        *)
(***************************************************************************)
\* df["platform"] = platform
WithPlatform(df, platform) ==
    SetColumn(df, PLATFORM, [k \in 1..Len(df.rows) |-> Str(platform)])

\* the frames of one category that are not empty, tagged and concatenated
ConcatReports(ios, android) ==
    IF IsEmpty(ios) /\ IsEmpty(android) THEN EmptyFrame
    ELSE IF IsEmpty(android) THEN WithPlatform(ios, IOS)
    ELSE IF IsEmpty(ios) THEN WithPlatform(android, ANDROID)
    ELSE Concat2(WithPlatform(ios, IOS), WithPlatform(android, ANDROID))

\* the cell's .str.lower() != 'organic' (NaN compares unequal)
NotOrganic(c) == ~(IsStr(c) /\ LowerStr(c.s) = ORGANIC)

\* the non-organic filter on one concatenated frame
FilterOrganic(df) ==
    IF IsEmpty(df) THEN df
    ELSE LET d == NormalizeColumns(df)
         IN  IF HasCol(d, MEDIA_SOURCE)
             THEN FilterRows(d, LAMBDA r : NotOrganic(r[MEDIA_SOURCE]))
             ELSE d

\* the outcomes of the four requests of one run in which at most one of
\* them is not "ok". What requests.get can do for one report: "ok" a 200
\* response with a CSV body, "status" a response with another status code,
\* "blank" a 200 response with a blank body, "error" no response (the call
\* raises)
ResponseOutcomes ==
    LET reports == {"ios_delivered", "ios_fraud", "android_delivered", "android_fraud"}
    IN  {out \in [reports -> {"ok", "status", "blank", "error"}] :
            \A p \in reports, q \in reports : (out[p] # "ok" /\ out[q] # "ok") => p = q}

\* the frame returned for a response of the given kind whose body, when it
\* has one, parses to csv
pull_appsflyer_report(kind, csv) ==
    IF kind = "ok" THEN csv ELSE EmptyFrame

\* src: the four frames pull_appsflyer_report returns, an EmptyFrame for a
\* failed or empty response
pull_all_reports(src) ==
    [delivered |-> FilterOrganic(ConcatReports(src.ios_delivered, src.android_delivered)),
     fraud |-> FilterOrganic(ConcatReports(src.ios_fraud, src.android_fraud))]

(***************************************************************************)
(* Deduplication against the fraud set (inline in process_kikoff_app and   *)
(* in apply_grant_addl_fraud_rules).                                       *)
(***************************************************************************)
\* the last column satisfying P, <<>> when there is none: the loop assigns on
\* every match and has no break
LastMatching(cols, P(_)) ==
    LET hits == {i \in 1..Len(cols) : P(cols[i])}
    IN  IF hits = {} THEN <<>>
        ELSE cols[CHOOSE i \in hits : \A j \in hits : j <= i]

\* 'customer' in col and 'id' in col
IsCustomerIdCol(col) == Contains(col, CUSTOMER) /\ Contains(col, ID)

\* 'appsflyer' in col and 'id' in col
IsAppsflyerIdCol(col) == Contains(col, APPSFLYER) /\ Contains(col, ID)

\* customer_id_col, appsflyer_id_col after the loop over the candidates' columns
ResolveIdCols(cand) ==
    [customer_id_col |-> LastMatching(cand.columns, IsCustomerIdCol),
     appsflyer_id_col |-> LastMatching(cand.columns, IsAppsflyerIdCol)]

\* if customer_id_col and appsflyer_id_col
IdColsFound(ids) == ids.customer_id_col # <<>> /\ ids.appsflyer_id_col # <<>>

\* MatchKey built from the customer id alone
MatchKey_CustomerOnly(r, ids) == PyStr(r[ids.customer_id_col]) \o <<"_">>

\* df[customer_id_col].astype(str) + "_" + df[appsflyer_id_col].astype(str), one row
MatchKey(r, ids) == PyStr(r[ids.customer_id_col]) \o <<"_">> \o PyStr(r[ids.appsflyer_id_col])

\* df["_match_key"] = ...
WithMatchKey(df, ids) ==
    SetColumn(df, MATCH_KEY, [k \in 1..Len(df.rows) |-> Str(MatchKey(df.rows[k], ids))])

\* set(fraud_df["_match_key"].unique())
FraudKeys(fraud) == {fraud.rows[k][MATCH_KEY] : k \in 1..Len(fraud.rows)}

\* RemoveFraudMatches comparing row k of the candidates with row k of the
\* fraud frame instead of testing membership in the key set
RemoveFraudMatches_Positional(cand, fraud) ==
    LET keep == {k \in 1..Len(cand.rows) :
                    k > Len(fraud.rows) \/ cand.rows[k][MATCH_KEY] # fraud.rows[k][MATCH_KEY]}
        pick[k \in 0..Len(cand.rows)] ==
            IF k = 0 THEN <<>>
            ELSE IF k \in keep THEN Append(pick[k - 1], cand.rows[k]) ELSE pick[k - 1]
    IN  [cand EXCEPT !.rows = pick[Len(cand.rows)]]

\* cand[~cand["_match_key"].isin(fraud_keys)]
RemoveFraudMatches(cand, fraud) ==
    FilterRows(cand, LAMBDA r : r[MATCH_KEY] \notin FraudKeys(fraud))

\* fraud_df[customer_id_col] / fraud_df[appsflyer_id_col] raise KeyError when
\* the fraud frame has no column of that name
FraudKeyError(fraud, ids) ==
    ~HasCol(fraud, ids.customer_id_col) \/ ~HasCol(fraud, ids.appsflyer_id_col)

\* delivered_df[delivered_df["is_flagged"] == True].copy(), or pd.DataFrame()
SeparateFlagged(delivered) ==
    IF ~IsEmpty(delivered) /\ HasCol(delivered, IS_FLAGGED)
    THEN FilterRows(delivered, LAMBDA r : r[IS_FLAGGED] = Bool(TRUE))
    ELSE EmptyFrame

\* kikoff_dedupe entered whenever the fraud frame is not empty, without the
\* test of the flagged events
kikoff_dedupe_FraudGuardOnly(flagged, fraud) ==
    IF IsEmpty(fraud)
    THEN [flagged |-> flagged, fraud |-> fraud, raised |-> "none"]
    ELSE LET fl == NormalizeColumns(flagged)
             fr == NormalizeColumns(fraud)
             ids == ResolveIdCols(fl)
         IN  IF ~IdColsFound(ids)
             THEN [flagged |-> fl, fraud |-> fr, raised |-> "none"]
             ELSE IF FraudKeyError(fr, ids)
             THEN [flagged |-> WithMatchKey(fl, ids), fraud |-> fr, raised |-> "KeyError"]
             ELSE LET flk == WithMatchKey(fl, ids)
                      frk == WithMatchKey(fr, ids)
                  IN  [flagged |-> DropColumns(RemoveFraudMatches(flk, frk), {MATCH_KEY}),
                       fraud |-> DropColumns(frk, {MATCH_KEY}),
                       raised |-> "none"]

\* the dedupe block of process_kikoff_app on the flagged events and the fraud
\* frame: what the two frames are when the block is left, and whether it is
\* left by KeyError
kikoff_dedupe(flagged, fraud) ==
    IF IsEmpty(flagged) \/ IsEmpty(fraud)
    THEN [flagged |-> flagged, fraud |-> fraud, raised |-> "none"]
    ELSE LET fl == NormalizeColumns(flagged)
             fr == NormalizeColumns(fraud)
             ids == ResolveIdCols(fl)
         IN  IF ~IdColsFound(ids)
             THEN [flagged |-> fl, fraud |-> fr, raised |-> "none"]
             ELSE IF FraudKeyError(fr, ids)
             THEN [flagged |-> WithMatchKey(fl, ids), fraud |-> fr, raised |-> "KeyError"]
             ELSE LET flk == WithMatchKey(fl, ids)
                      frk == WithMatchKey(fr, ids)
                  IN  [flagged |-> DropColumns(RemoveFraudMatches(flk, frk), {MATCH_KEY}),
                       fraud |-> DropColumns(frk, {MATCH_KEY}),
                       raised |-> "none"]

(***************************************************************************)
(* apply_grant_addl_fraud_rules                                            *)
(***************************************************************************)
\* df["_event_value_str"] = df[event_value_col].fillna("").astype(str)
WithEventValueStr(df, event_value_col) ==
    SetColumn(df, EVENT_VALUE_STR,
        [k \in 1..Len(df.rows) |->
            LET c == df.rows[k][event_value_col]
            IN  Str(IF IsNa(c) THEN <<>> ELSE PyStr(c))])

\* addl_fraud_mask testing for "00" without the closing brace
addl_fraud_mask_NoBrace(r) == ~Contains(r[EVENT_VALUE_STR].s, <<"0", "0">>)

\* the row's value of addl_fraud_mask
addl_fraud_mask(r) == ~Contains(r[EVENT_VALUE_STR].s, BRACE_PATTERN)

\* Rule 2 of apply_grant_addl_fraud_rules on the candidates and the fraud
\* frame: the candidates without P360 matches and without temp columns
grant_dedupe(addl, fraud) ==
    IF IsEmpty(fraud)
    THEN [addl |-> DropColumns(addl, {EVENT_VALUE_STR}), fraud |-> fraud, raised |-> "none"]
    ELSE LET fr == NormalizeColumns(fraud)
             ids == ResolveIdCols(addl)
         IN  IF ~IdColsFound(ids)
             THEN [addl |-> DropColumns(addl, {EVENT_VALUE_STR}), fraud |-> fr,
                   raised |-> "none"]
             ELSE IF FraudKeyError(fr, ids)
             THEN [addl |-> WithMatchKey(addl, ids), fraud |-> fr, raised |-> "KeyError"]
             ELSE LET ak == WithMatchKey(addl, ids)
                      frk == WithMatchKey(fr, ids)
                  IN  [addl |-> DropColumns(RemoveFraudMatches(ak, frk),
                                            {MATCH_KEY, EVENT_VALUE_STR}),
                       fraud |-> frk,
                       raised |-> "none"]

\* apply_grant_addl_fraud_rules up to Rule 1: the candidates (with the temp
\* column), the caller's df as modified in place, and whether the function
\* has returned pd.DataFrame() already
addl_fraud_candidates(df) ==
    IF IsEmpty(df)
    THEN [addl |-> EmptyFrame, df |-> df, returned |-> TRUE]
    ELSE LET d1 == NormalizeColumns(df)
             event_value_col == FirstCandidate(d1, EventValueCandidates)
         IN  IF event_value_col = <<>>
             THEN [addl |-> EmptyFrame, df |-> d1, returned |-> TRUE]
             ELSE LET d2 == WithEventValueStr(d1, event_value_col)
                      cand == FilterRows(d2, addl_fraud_mask)
                  IN  IF IsEmpty(cand)
                      THEN [addl |-> EmptyFrame, df |-> d2, returned |-> TRUE]
                      ELSE [addl |-> cand, df |-> d2, returned |-> FALSE]

\* df[~df["agency_normalized"].isin(GRANT_EXCLUDED_AGENCIES)] and then
\* df[df["agency_normalized"].notna()]
FilterExcluded(df) ==
    FilterRows(df, LAMBDA r : ~IsIn(r[AGENCY_NORMALIZED], GRANT_EXCLUDED_AGENCIES)
                              /\ ~IsNa(r[AGENCY_NORMALIZED]))

\* the normalisation of delivered_df / fraud_df in process_grant_app
grant_normalize(df) ==
    IF IsEmpty(df) THEN df
    ELSE FilterExcluded(WithAgencyNormalized(NormalizeColumns(df)))

(***************************************************************************)
(* aggregate_by_agency                                                     *)
(***************************************************************************)
\* the orders sort_values(key, ascending=False) may leave the rows in: every
\* arrangement with non-increasing keys (the default sort is not stable)
SortedOrders(rows, Key(_)) ==
    LET n == Len(rows)
        perms == {p \in [1..n -> 1..n] : \A i, j \in 1..n : i # j => p[i] # p[j]}
    IN  {[i \in 1..n |-> rows[p[i]]] :
            p \in {q \in perms : \A i \in 1..n : \A j \in 1..n :
                                   i < j => Key(rows[q[i]]) >= Key(rows[q[j]])}}

\* the frame after the call: agency_normalized is added in place when missing
aggregate_frame(df) ==
    IF IsEmpty(df) \/ HasCol(df, AGENCY_NORMALIZED) THEN df ELSE WithAgencyNormalized(df)

\* FilterUnknown that filters nothing
FilterUnknown_KeepAll(df) == df

\* df_filtered = df[df["agency_normalized"] != "unknown"]
FilterUnknown(df) == FilterRows(df, LAMBDA r : r[AGENCY_NORMALIZED] # Str(UNKNOWN))

\* df_filtered.groupby("agency_normalized").size(): one row per agency, NaN
\* keys dropped
GroupSizes(df) ==
    {[agency |-> a,
      count |-> Cardinality({k \in 1..Len(df.rows) : df.rows[k][AGENCY_NORMALIZED] = Str(a)})] :
        a \in {df.rows[k][AGENCY_NORMALIZED].s :
                 k \in {i \in 1..Len(df.rows) : IsStr(df.rows[i][AGENCY_NORMALIZED])}}}

\* a sequence holding the elements of the finite set S
RECURSIVE SetToSeq(_)
SetToSeq(S) ==
    IF S = {} THEN <<>> ELSE LET x == CHOOSE y \in S : TRUE IN <<x>> \o SetToSeq(S \ {x})

\* the values aggregate_by_agency(df, name) may return
aggregate_by_agency(df) ==
    IF IsEmpty(df) THEN {<<>>}
    ELSE LET filtered == FilterUnknown(aggregate_frame(df))
         IN  IF IsEmpty(filtered) THEN {<<>>}
             ELSE SortedOrders(SetToSeq(GroupSizes(filtered)), LAMBDA g : g.count)

(***************************************************************************)
(* Summary assembly (process_kikoff_app and process_grant_app; the column  *)
(* outside_attribution / addl_fraud is the field flagged here).            *)
(***************************************************************************)
\* JoinRow of an inner join: no row for a left row without a match
JoinRow_Inner(l, right, name) ==
    LET m == SelectSeq(right, LAMBDA g : g.agency = l.agency)
    IN  [j \in 1..Len(m) |-> l @@ (name :> Num(m[j].count))]

\* the rows of left.merge(right, on="agency", how="left") that come from the
\* left row l: one per matching right row, or one with NaN when none matches
JoinRow(l, right, name) ==
    LET m == SelectSeq(right, LAMBDA g : g.agency = l.agency)
    IN  IF m = <<>> THEN <<l @@ (name :> NaN)>>
        ELSE [j \in 1..Len(m) |-> l @@ (name :> Num(m[j].count))]

RECURSIVE MergeLeft(_, _, _)
MergeLeft(left, right, name) ==
    IF left = <<>> THEN <<>>
    ELSE JoinRow(Head(left), right, name) \o MergeLeft(Tail(left), right, name)

\* the merge when the aggregate is not empty, else summary_df[name] = 0
WithCount(left, agg, name) ==
    IF agg # <<>> THEN MergeLeft(left, agg, name)
    ELSE [i \in 1..Len(left) |-> left[i] @@ (name :> Num(0))]

\* fillna(0) and to_numeric on one cell
FillZero(c) == IF IsNum(c) THEN c.n ELSE 0

\* round(part / delivered * 100, 1) in tenths of a percent, 0 if delivered is 0
RatePct(part, delivered) ==
    IF delivered > 0
    THEN LET q == (1000 * part) \div delivered
             r == (1000 * part) % delivered
         IN  IF 2 * r < delivered THEN q
             ELSE IF 2 * r > delivered THEN q + 1
             ELSE IF q % 2 = 0 THEN q ELSE q + 1
    ELSE 0

\* net_valid clamped at zero
net_valid_Clamped(delivered, fraud, flagged) ==
    IF delivered - fraud - flagged < 0 THEN 0 ELSE delivered - fraud - flagged

\* delivered - fraud - flagged, .astype(int)
net_valid(delivered, fraud, flagged) == delivered - fraud - flagged

SummaryRow(m) ==
    LET d == FillZero(m.delivered)
        f == FillZero(m.fraud)
        g == FillZero(m.flagged)
    IN  [agency |-> m.agency, delivered |-> d, fraud |-> f, flagged |-> g,
         net_valid |-> net_valid(d, f, g),
         fraud_rate |-> RatePct(f, d), flagged_rate |-> RatePct(g, d)]

\* build_summary sorting by delivered in ascending order
build_summary_Ascending(dagg, fagg, gagg) ==
    IF dagg = <<>> THEN {<<>>}
    ELSE LET s0 == [i \in 1..Len(dagg) |->
                       [agency |-> dagg[i].agency, delivered |-> Num(dagg[i].count)]]
             s1 == WithCount(s0, fagg, "fraud")
             s2 == WithCount(s1, gagg, "flagged")
             s3 == [i \in 1..Len(s2) |-> SummaryRow(s2[i])]
         IN  SortedOrders(s3, LAMBDA row : 0 - row.delivered)

\* build_summary merging the fraud aggregate a second time in the place of
\* the flagged aggregate
build_summary_FraudAsFlagged(dagg, fagg, gagg) ==
    IF dagg = <<>> THEN {<<>>}
    ELSE LET s0 == [i \in 1..Len(dagg) |->
                       [agency |-> dagg[i].agency, delivered |-> Num(dagg[i].count)]]
             s1 == WithCount(s0, fagg, "fraud")
             s2 == WithCount(s1, fagg, "flagged")
             s3 == [i \in 1..Len(s2) |-> SummaryRow(s2[i])]
         IN  SortedOrders(s3, LAMBDA row : row.delivered)

\* the values summary_df may take
build_summary(dagg, fagg, gagg) ==
    IF dagg = <<>> THEN {<<>>}
    ELSE LET s0 == [i \in 1..Len(dagg) |->
                       [agency |-> dagg[i].agency, delivered |-> Num(dagg[i].count)]]
             s1 == WithCount(s0, fagg, "fraud")
             s2 == WithCount(s1, gagg, "flagged")
             s3 == [i \in 1..Len(s2) |-> SummaryRow(s2[i])]
         IN  SortedOrders(s3, LAMBDA row : row.delivered)

(***************************************************************************)
(* Inputs: the values given to the parser and the reports the report       *)
(* source returns.                                                         *)
(***************************************************************************)
\* all sequences over S of length at most n
RECURSIVE SeqsUpTo(_, _)
SeqsUpTo(S, n) ==
    IF n = 0 THEN {<<>>}
    ELSE LET shorter == SeqsUpTo(S, n - 1)
         IN  shorter \cup {Append(s, x) : s \in {q \in shorter : Len(q) = n - 1}, x \in S}

LookbackChars == {"7", "1", "d", "h", "D", " ", "-", "a"}

\* what a lookback cell can hold: None, NaN, an int, a string
LookbackValues ==
    {None, NaN} \cup {Num(n) : n \in {0, 24, -5}}
    \cup {Str(s) : s \in SeqsUpTo(LookbackChars, MaxLen)}

\* the row over cols whose cells are vals, in the order of cols
MkRow(cols, vals) ==
    [c \in Range(cols) |-> vals[CHOOSE i \in 1..Len(cols) : cols[i] = c]]

\* the report restricted to the columns cols
Project(df, cols) ==
    [columns |-> cols,
     rows |-> [k \in 1..Len(df.rows) |-> [c \in Range(cols) |-> df.rows[k][c]]]]

\* a response with no rows is the empty frame
Report(cols, rows) == IF rows = <<>> THEN EmptyFrame ELSE [columns |-> cols, rows |-> rows]

AgencyCells == {Str(<<" ", "A", "d", "P", "e", "r", "i", "o", "M", "e", "d", "i", "a">>), Str(<<"a", "c", "m", "e">>), Str(<<" ">>), NaN}

TouchCells == {Str(<<"I", "m", "p", "r", "e", "s", "s", "i", "o", "n">>), Str(<<"c", "l", "i", "c", "k">>), NaN}

LookbackCells == {Str(<<"6", "h">>), Str(<<"7", "h">>), Str(<<"7", "d">>), Str(<<"8", "d">>), Str(<<"-", "3", "d">>), NaN}

FlagColumns == <<HdrPartner, HdrTouchType, HdrLookback>>

\* one delivered record with every combination the flag rules distinguish
FlagReports ==
    {Report(FlagColumns, <<MkRow(FlagColumns, <<a, tt, lb>>)>>) :
        a \in AgencyCells, tt \in TouchCells, lb \in LookbackCells}

MatchColumns == <<HdrPartner, HdrTouchType, HdrCustomerUserId, HdrAppsFlyerId, HdrEventValue>>

DeliveredPool ==
    {MkRow(MatchColumns, <<Str(<<"a", "c", "m", "e">>), Str(<<"I", "m", "p", "r", "e", "s", "s", "i", "o", "n">>), Str(<<"a">>), Str(<<"x">>), Str(<<"$", "1", ".", "5", "0">>)>>),
     MkRow(MatchColumns, <<Str(<<" ", "A", "d", "P", "e", "r", "i", "o", "M", "e", "d", "i", "a">>), Str(<<"I", "m", "p", "r", "e", "s", "s", "i", "o", "n">>), Str(<<"b">>), Str(<<"x">>), Str(<<"$", "1", ".", "0", "0", "}">>)>>),
     MkRow(MatchColumns, <<NaN, Str(<<"I", "m", "p", "r", "e", "s", "s", "i", "o", "n">>), Str(<<"a">>), Str(<<"x">>), NaN>>),
     MkRow(MatchColumns, <<Str(<<"M", "o", "b", "i", "P", "r", "o", "b", "e", "B", "D", "5", "2", "1">>), Str(<<"I", "m", "p", "r", "e", "s", "s", "i", "o", "n">>), Str(<<"b">>), Str(<<"x">>), Str(<<"$", "1", ".", "5", "0">>)>>)}

FraudColumns == <<HdrPartner, HdrCustomerUserId, HdrAppsFlyerId>>

FraudPool ==
    {MkRow(FraudColumns, <<Str(<<"a", "c", "m", "e">>), Str(<<"a">>), Str(<<"x">>)>>),
     MkRow(FraudColumns, <<Str(<<"Z", "e", "t", "a">>), Str(<<"b">>), Str(<<"x">>)>>)}

AndroidColumns == <<HdrMediaSource>> \o MatchColumns

\* the Android delivered report: an organic record and a non-organic one
AndroidDelivered ==
    Report(AndroidColumns,
        <<MkRow(AndroidColumns, <<Str(<<"O", "r", "g", "a", "n", "i", "c">>), NaN, Str(<<"c", "l", "i", "c", "k">>), Str(<<"c">>), Str(<<"x">>), Str(<<"$", "1", ".", "5", "0">>)>>),
          MkRow(AndroidColumns, <<Str(<<"a", "c", "m", "e", "_", "i", "n", "t">>), Str(<<"a", "c", "m", "e">>), Str(<<"c", "l", "i", "c", "k">>), Str(<<"a">>), Str(<<"y">>), Str(<<"$", "1", ".", "5", "0">>)>>)>>)

AndroidFraud ==
    Report(FraudColumns, <<MkRow(FraudColumns, <<NaN, Str(<<"a">>), Str(<<"x">>)>>)>>)

\* iOS reports of up to MaxRows / MaxFraudRows records with identifier
\* columns, with or without the two Android reports
MatchSources ==
    {[ios_delivered |-> Report(MatchColumns, d),
      android_delivered |-> IF android THEN AndroidDelivered ELSE EmptyFrame,
      ios_fraud |-> Report(FraudColumns, f),
      android_fraud |-> IF android THEN AndroidFraud ELSE EmptyFrame] :
        d \in SeqsUpTo(DeliveredPool, MaxRows),
        f \in SeqsUpTo(FraudPool, MaxFraudRows), android \in BOOLEAN}

FlagSources ==
    {[ios_delivered |-> d, android_delivered |-> EmptyFrame,
      ios_fraud |-> EmptyFrame, android_fraud |-> AndroidFraud] : d \in FlagReports}

\* the same two delivered records and one fraud record under different schemas
SchemaDelivered ==
    Report(MatchColumns,
        <<MkRow(MatchColumns, <<Str(<<"a", "c", "m", "e">>), Str(<<"I", "m", "p", "r", "e", "s", "s", "i", "o", "n">>), Str(<<"a">>), Str(<<"x">>), Str(<<"$", "1", ".", "5", "0">>)>>),
          MkRow(MatchColumns, <<Str(<<"M", "o", "b", "i", "P", "r", "o", "b", "e", "B", "D", "5", "2", "1">>), Str(<<"I", "m", "p", "r", "e", "s", "s", "i", "o", "n">>), Str(<<"b">>), Str(<<"x">>), Str(<<"$", "1", ".", "5", "0">>)>>)>>)

SchemaFraud ==
    Report(FraudColumns, <<MkRow(FraudColumns, <<Str(<<"a", "c", "m", "e">>), Str(<<"a">>), Str(<<"x">>)>>)>>)

DeliveredSchemas ==
    {MatchColumns,
     <<HdrPartner, HdrTouchType, HdrAppsFlyerId, HdrEventValue>>,
     <<HdrPartner, HdrTouchType, HdrEventValue>>,
     <<HdrPartner, HdrTouchType, HdrCustomerUserId, HdrAppsFlyerId>>,
     <<HdrPartner, HdrCustomerUserId, HdrAppsFlyerId, HdrEventValue>>,
     <<HdrTouchType, HdrCustomerUserId, HdrAppsFlyerId, HdrEventValue>>}

FraudSchemas ==
    {FraudColumns, <<HdrPartner, HdrCustomerUserId>>, <<HdrPartner>>}

SchemaSources ==
    {[ios_delivered |-> Project(SchemaDelivered, dc), android_delivered |-> EmptyFrame,
      ios_fraud |-> Project(SchemaFraud, fc), android_fraud |-> EmptyFrame] :
        dc \in DeliveredSchemas, fc \in FraudSchemas}

ValueChars == {"0", "}", "1"}

ValueCells == {NaN, Num(100)} \cup {Str(s) : s \in SeqsUpTo(ValueChars, MaxValueLen)}

ValueColumns == <<HdrPartner, HdrEventValue>>

\* one delivered record per event value, no fraud report
ValueSources ==
    {[ios_delivered |-> Report(ValueColumns, <<MkRow(ValueColumns, <<Str(<<"a", "c", "m", "e">>), v>>)>>),
      android_delivered |-> EmptyFrame,
      ios_fraud |-> EmptyFrame, android_fraud |-> EmptyFrame] : v \in ValueCells}

\* one delivered record under a schema that has two candidates of every
\* logical field, the columns in the reverse of the candidate order and in
\* the candidate order
CandidateSources ==
    LET cols == <<<<"R", "e", "v", "e", "n", "u", "e">>,
                 <<"E", "v", "e", "n", "t", " ", "V", "a", "l", "u", "e">>,
                 <<"L", "o", "o", "k", "b", "a", "c", "k">>,
                 <<"A", "t", "t", "r", "i", "b", "u", "t", "i", "o", "n", " ", "L", "o", "o", "k", "b", "a", "c", "k">>,
                 <<"T", "o", "u", "c", "h", " ", "T", "y", "p", "e">>,
                 <<"A", "t", "t", "r", "i", "b", "u", "t", "e", "d", " ", "T", "o", "u", "c", "h", " ", "T", "y", "p", "e">>,
                 <<"M", "e", "d", "i", "a", " ", "S", "o", "u", "r", "c", "e">>,
                 <<"A", "g", "e", "n", "c", "y">>>>
        vals == <<Str(<<"5">>),
                 Str(<<"$", "1", ".", "0", "0", "}">>),
                 Str(<<"8", "d">>),
                 Str(<<"6", "h">>),
                 Str(<<"c", "l", "i", "c", "k">>),
                 Str(<<"I", "m", "p", "r", "e", "s", "s", "i", "o", "n">>),
                 Str(<<"a", "c", "m", "e">>),
                 Str(<<"A", "d", "P", "e", "r", "i", "o", "M", "e", "d", "i", "a">>)>>
        rev(s) == [i \in 1..Len(s) |-> s[Len(s) + 1 - i]]
    IN  {[ios_delivered |-> Report(c, <<MkRow(cols, vals)>>), android_delivered |-> EmptyFrame,
          ios_fraud |-> EmptyFrame, android_fraud |-> EmptyFrame] : c \in {cols, rev(cols)}}

\* a delivered and a fraud record under a schema with two field names that
\* qualify as the customer identifier, in either column order
AmbiguousIdSources ==
    LET HdrCustomerId == <<"C", "u", "s", "t", "o", "m", "e", "r", " ", "I", "D">>
        dcols == <<HdrPartner, HdrTouchType, HdrCustomerUserId, HdrCustomerId,
                   HdrAppsFlyerId, HdrEventValue>>
        dvals == <<Str(<<"a", "c", "m", "e">>), Str(<<"I", "m", "p", "r", "e", "s", "s", "i", "o", "n">>), Str(<<"a">>), Str(<<"b">>), Str(<<"x">>), Str(<<"$", "1", ".", "5", "0">>)>>
        dswap == <<HdrPartner, HdrTouchType, HdrCustomerId, HdrCustomerUserId,
                   HdrAppsFlyerId, HdrEventValue>>
        fcols == <<HdrPartner, HdrCustomerUserId, HdrCustomerId, HdrAppsFlyerId>>
        fvals == <<Str(<<"a", "c", "m", "e">>), Str(<<"a">>), Str(<<"z">>), Str(<<"x">>)>>
    IN  {[ios_delivered |-> Report(c, <<MkRow(dcols, dvals)>>), android_delivered |-> EmptyFrame,
          ios_fraud |-> Report(fcols, <<MkRow(fcols, fvals)>>), android_fraud |-> EmptyFrame] :
            c \in {dcols, dswap}}

\* everything the report source may answer in the model
\* a delivered record and a fraud record whose identifiers differ and
\* contain the separator of the match key
SeparatorSources ==
    {[ios_delivered |->
          Report(MatchColumns,
              <<MkRow(MatchColumns, <<Str(<<"a", "c", "m", "e">>), Str(<<"I", "m", "p", "r", "e", "s", "s", "i", "o", "n">>), Str(<<"a", "_", "b">>), Str(<<"c">>), Str(<<"$", "1", ".", "5", "0">>)>>)>>),
      android_delivered |-> EmptyFrame,
      ios_fraud |->
          Report(FraudColumns,
              <<MkRow(FraudColumns, <<Str(<<"a", "c", "m", "e">>), Str(<<"a">>), Str(<<"b", "_", "c">>)>>)>>),
      android_fraud |-> EmptyFrame]}

\* runs in which a request may fail: the four reports would each have a
\* record
FailureSources ==
    {[ios_delivered |-> Report(MatchColumns, <<d>>), android_delivered |-> AndroidDelivered,
      ios_fraud |-> Report(FraudColumns, <<f>>), android_fraud |-> AndroidFraud] :
        d \in DeliveredPool, f \in FraudPool}

ReportSources ==
    MatchSources \cup FlagSources \cup SchemaSources \cup ValueSources
    \cup CandidateSources \cup AmbiguousIdSources \cup SeparatorSources

(***************************************************************************)
(* State machine.                                                          *)
(***************************************************************************)
NoValue == [t |-> "unset"]

IdleFrames ==
    /\ delivered_df = EmptyFrame
    /\ fraud_df = EmptyFrame
    /\ flagged_df = EmptyFrame
    /\ delivered_agg = <<>>
    /\ fraud_agg = <<>>
    /\ flagged_agg = <<>>
    /\ summary_df = <<>>
    /\ raised = "none"

\* a call parse_lookback_to_hours(value) about to be made
InitLookback ==
    /\ app = "none"
    /\ pc = "parse"
    /\ value \in LookbackValues
    /\ hours = NoValue
    /\ IdleFrames

ParseLookback ==
    /\ pc = "parse"
    /\ hours' = Num(parse_lookback_to_hours(value))
    /\ pc' = "parsed"
    /\ UNCHANGED <<app, value, delivered_df, fraud_df, flagged_df,
                   delivered_agg, fraud_agg, flagged_agg, summary_df, raised>>

NextLookback == ParseLookback

SpecLookback == InitLookback /\ [][NextLookback]_vars

\* process_kikoff_app or process_grant_app about to pull its reports
Init ==
    /\ app \in {"kikoff", "grant"}
    /\ pc = "pull"
    /\ value = NoValue
    /\ hours = NoValue
    /\ IdleFrames

\* delivered_df, fraud_df = pull_all_reports(...)
\* requests.get raises when the request cannot be made or answered; nothing
\* between it and main catches the exception
PullAllReports ==
    /\ pc = "pull"
    /\ \E src \in ReportSources, out \in ResponseOutcomes :
          /\ src \in FailureSources \/ \A q \in DOMAIN out : out[q] = "ok"
          /\ IF \E q \in DOMAIN out : out[q] = "error"
             THEN /\ raised' = "RequestException"
                  /\ pc' = "raised"
                  /\ UNCHANGED <<delivered_df, fraud_df>>
             ELSE LET got == [q \in DOMAIN out |-> pull_appsflyer_report(out[q], src[q])]
                      r == pull_all_reports(got)
                  IN  /\ delivered_df' = r.delivered
                      /\ fraud_df' = r.fraud
                      /\ pc' = "flag"
                      /\ UNCHANGED raised
    /\ UNCHANGED <<app, value, hours, flagged_df,
                   delivered_agg, fraud_agg, flagged_agg, summary_df>>

\* delivered_df = apply_kikoff_flagging_rules(delivered_df)
ApplyKikoffFlaggingRules ==
    /\ app = "kikoff"
    /\ pc = "flag"
    /\ delivered_df' = apply_kikoff_flagging_rules(delivered_df)
    /\ pc' = "separate"
    /\ UNCHANGED <<app, value, hours, fraud_df, flagged_df,
                   delivered_agg, fraud_agg, flagged_agg, summary_df, raised>>

\* "Separate flagged events" of process_kikoff_app
SeparateFlaggedEvents ==
    /\ app = "kikoff"
    /\ pc = "separate"
    /\ flagged_df' = SeparateFlagged(delivered_df)
    /\ pc' = "dedupe"
    /\ UNCHANGED <<app, value, hours, delivered_df, fraud_df,
                   delivered_agg, fraud_agg, flagged_agg, summary_df, raised>>

\* the dedupe block of process_kikoff_app
KikoffDedupe ==
    /\ app = "kikoff"
    /\ pc = "dedupe"
    /\ LET r == kikoff_dedupe(flagged_df, fraud_df)
       IN  /\ flagged_df' = r.flagged
           /\ fraud_df' = r.fraud
           /\ raised' = r.raised
           /\ pc' = IF r.raised = "none" THEN "aggregate" ELSE "raised"
    /\ UNCHANGED <<app, value, hours, delivered_df,
                   delivered_agg, fraud_agg, flagged_agg, summary_df>>

\* apply_grant_addl_fraud_rules(delivered_df, fraud_df) up to Rule 1
GrantAddlFraudRule1 ==
    /\ app = "grant"
    /\ pc = "flag"
    /\ LET r == addl_fraud_candidates(delivered_df)
       IN  /\ flagged_df' = r.addl
           /\ delivered_df' = r.df
           /\ pc' = IF r.returned THEN "normalize" ELSE "dedupe"
    /\ UNCHANGED <<app, value, hours, fraud_df,
                   delivered_agg, fraud_agg, flagged_agg, summary_df, raised>>

\* apply_grant_addl_fraud_rules from Rule 2 to its return
GrantAddlFraudRule2 ==
    /\ app = "grant"
    /\ pc = "dedupe"
    /\ LET r == grant_dedupe(flagged_df, fraud_df)
       IN  /\ flagged_df' = IF r.raised = "none" THEN WithAgencyNormalized(r.addl) ELSE r.addl
           /\ fraud_df' = r.fraud
           /\ raised' = r.raised
           /\ pc' = IF r.raised = "none" THEN "normalize" ELSE "raised"
    /\ UNCHANGED <<app, value, hours, delivered_df,
                   delivered_agg, fraud_agg, flagged_agg, summary_df>>

\* process_grant_app: agency normalisation and the excluded-agency filters
GrantNormalize ==
    /\ app = "grant"
    /\ pc = "normalize"
    /\ delivered_df' = grant_normalize(delivered_df)
    /\ fraud_df' = grant_normalize(fraud_df)
    /\ flagged_df' = IF IsEmpty(flagged_df) THEN flagged_df ELSE FilterExcluded(flagged_df)
    /\ pc' = "aggregate"
    /\ UNCHANGED <<app, value, hours,
                   delivered_agg, fraud_agg, flagged_agg, summary_df, raised>>

\* the three aggregate_by_agency calls
AggregateByAgency ==
    /\ pc = "aggregate"
    /\ delivered_agg' \in aggregate_by_agency(delivered_df)
    /\ fraud_agg' \in aggregate_by_agency(fraud_df)
    /\ flagged_agg' \in aggregate_by_agency(flagged_df)
    /\ delivered_df' = aggregate_frame(delivered_df)
    /\ fraud_df' = aggregate_frame(fraud_df)
    /\ flagged_df' = aggregate_frame(flagged_df)
    /\ pc' = "summarize"
    /\ UNCHANGED <<app, value, hours, summary_df, raised>>

\* "Build summary" up to the sort by delivered
BuildSummary ==
    /\ pc = "summarize"
    /\ summary_df' \in build_summary(delivered_agg, fraud_agg, flagged_agg)
    /\ pc' = "done"
    /\ UNCHANGED <<app, value, hours, delivered_df, fraud_df, flagged_df,
                   delivered_agg, fraud_agg, flagged_agg, raised>>

Next ==
    \/ PullAllReports
    \/ ApplyKikoffFlaggingRules
    \/ SeparateFlaggedEvents
    \/ KikoffDedupe
    \/ GrantAddlFraudRule1
    \/ GrantAddlFraudRule2
    \/ GrantNormalize
    \/ AggregateByAgency
    \/ BuildSummary

Spec == Init /\ [][Next]_vars

\* apply_kikoff_flagging_rules(df) or apply_grant_addl_fraud_rules(df,
\* fraud_df) about to be called on record sets as the report source gives
\* them, field names not yet normalized
InitFlagging ==
    /\ app \in {"kikoff", "grant"}
    /\ pc = "flag"
    /\ \E src \in FlagSources \cup SchemaSources \cup CandidateSources :
          /\ delivered_df = ConcatReports(src.ios_delivered, src.android_delivered)
          /\ fraud_df = ConcatReports(src.ios_fraud, src.android_fraud)
    /\ value = NoValue
    /\ hours = NoValue
    /\ flagged_df = EmptyFrame
    /\ delivered_agg = <<>> /\ fraud_agg = <<>> /\ flagged_agg = <<>>
    /\ summary_df = <<>>
    /\ raised = "none"

NextFlagging ==
    \/ ApplyKikoffFlaggingRules
    \/ GrantAddlFraudRule1
    \/ GrantAddlFraudRule2

SpecFlagging == InitFlagging /\ [][NextFlagging]_vars

(***************************************************************************)
(* Claims.                                                                 *)
(***************************************************************************)
\* the numerals over the digits of LookbackChars with at most n digits, each
\* with the number it denotes
RECURSIVE Numerals(_)
Numerals(n) ==
    IF n = 0 THEN {}
    ELSE LET shorter == Numerals(n - 1)
             digits == {c \in LookbackChars : IsDigit(c)}
         IN  {[s |-> <<c>>, v |-> DigitVal(c)] : c \in digits}
             \cup shorter
             \cup {[s |-> Append(m.s, c), v |-> 10 * m.v + DigitVal(c)] :
                      m \in shorter, c \in digits}

\* the numerals and their negations
SignedNumerals ==
    Numerals(MaxLen) \cup {[s |-> <<"-">> \o m.s, v |-> -m.v] : m \in Numerals(MaxLen)}

\* the text the parser compares: trimmed and lower-cased
LookbackText == LowerStr(Strip(PyStr(value)))

\* C1: parse_lookback_to_hours gives N*24 for N+"d", N for N+"h", the number
\* for a bare numeric string, and 0 for an empty, None/NaN or non-numeric
\* value, comparing after trimming and lower-casing; it never raises.
C1_ParseLookback ==
    pc = "parsed" =>
        LET txt == LookbackText
            prefix == DropLast(txt)
        IN  /\ raised = "none"
            /\ IsNum(hours)
            /\ (IsNa(value) \/ value = Str(<<>>)) => hours = Num(0)
            /\ ~IsNa(value) =>
                /\ \A m \in SignedNumerals :
                    /\ txt = m.s \o <<"d">> => hours = Num(m.v * 24)
                    /\ txt = m.s \o <<"h">> => hours = Num(m.v)
                    /\ txt = m.s => hours = Num(m.v)
                /\ ( /\ ~PyFloat(txt).ok
                     /\ ~(EndsWith(txt, "d") /\ PyFloat(prefix).ok)
                     /\ ~(EndsWith(txt, "h") /\ PyFloat(prefix).ok) )
                   => hours = Num(0)

\* " 7D" has been parsed to 168 hours
C1_Witness ==
    /\ pc = "parsed"
    /\ value = Str(<<" ", "7", "D">>)
    /\ hours = Num(168)

\* the derived fields of a flagged delivered record
KikoffFlagged == app = "kikoff" /\ pc \notin {"pull", "flag"}

\* C2: after Kikoff flagging every delivered record is flagged exactly when
\* it is an impression of an unauthorized agency ("Unauthorized VTA"), an
\* impression of an authorized agency with lookback_hours > 6 ("VTA Window
\* Exceeded (>6h)") or a click with lookback_hours > 168 ("CTA Window
\* Exceeded (>7d)"); otherwise it is unflagged with an empty reason.
C2_KikoffClassification ==
    KikoffFlagged =>
        \A k \in 1..Len(delivered_df.rows) :
            LET r == delivered_df.rows[k]
                impression == r[TOUCH_TYPE_NORMALIZED] = Str(IMPRESSION)
                click == r[TOUCH_TYPE_NORMALIZED] = Str(CLICK)
                authorized == r[AGENCY_NORMALIZED] \in {Str(ADPERIOMEDIA), Str(GLOBALWIDEMEDIA)}
                lb == r[LOOKBACK_HOURS].n
                unauthorized_vta == impression /\ ~authorized
                vta_exceeded == impression /\ authorized /\ lb > 6
                cta_exceeded == click /\ lb > 7 * 24
            IN  /\ r[IS_FLAGGED] = Bool(unauthorized_vta \/ vta_exceeded \/ cta_exceeded)
                /\ unauthorized_vta => r[FLAG_REASON] = Str(UNAUTHORIZED_VTA)
                /\ vta_exceeded => r[FLAG_REASON] = Str(VTA_WINDOW_EXCEEDED)
                /\ cta_exceeded => r[FLAG_REASON] = Str(CTA_WINDOW_EXCEEDED)
                /\ ~(unauthorized_vta \/ vta_exceeded \/ cta_exceeded)
                      => r[FLAG_REASON] = Str(<<>>)

\* a click at exactly 168 hours has been left unflagged
C2_Witness ==
    /\ KikoffFlagged
    /\ \E k \in 1..Len(delivered_df.rows) :
          /\ delivered_df.rows[k][TOUCH_TYPE_NORMALIZED] = Str(CLICK)
          /\ delivered_df.rows[k][LOOKBACK_HOURS] = Num(168)
          /\ delivered_df.rows[k][IS_FLAGGED] = Bool(FALSE)
          /\ delivered_df.rows[k][FLAG_REASON] = Str(<<>>)

\* C3: for every delivered record at most one of the three Variant-A masks
\* is true.
C3_MasksDisjoint ==
    KikoffFlagged =>
        \A k \in 1..Len(delivered_df.rows) :
            LET r == delivered_df.rows[k]
            IN  /\ ~(mask_unauthorized_vta(r) /\ mask_vta_window(r))
                /\ ~(mask_unauthorized_vta(r) /\ mask_cta_window(r))
                /\ ~(mask_vta_window(r) /\ mask_cta_window(r))

\* an unauthorized impression beyond the VTA window carries the reason of Rule 1
C3_Witness ==
    /\ KikoffFlagged
    /\ \E k \in 1..Len(delivered_df.rows) :
          /\ mask_unauthorized_vta(delivered_df.rows[k])
          /\ delivered_df.rows[k][LOOKBACK_HOURS].n > 6
          /\ delivered_df.rows[k][FLAG_REASON] = Str(UNAUTHORIZED_VTA)

\* the string form of a monetary-value cell, a missing value being ""
ValueText(c) == IF IsNa(c) THEN <<>> ELSE PyStr(c)

\* the delivered frame has been through Rule 1 of the Grant rules
GrantRule1Done ==
    /\ app = "grant"
    /\ HasCol(delivered_df, EVENT_VALUE_STR)
    /\ pc = "dedupe" \/ (pc = "normalize" /\ flagged_df = EmptyFrame)

\* C4: a delivered Grant record is an additional-fraud candidate exactly
\* when the string form of its monetary value does not contain "00}".
C4_GrantCandidate ==
    GrantRule1Done =>
        LET col == FirstCandidate(delivered_df, EventValueCandidates)
        IN  \A k \in 1..Len(delivered_df.rows) :
                (delivered_df.rows[k] \in Range(flagged_df.rows))
                    <=> ~Contains(ValueText(delivered_df.rows[k][col]), <<"0", "0", "}">>)

\* a value with "00" but no closing brace is a candidate next to none
C4_Witness ==
    /\ GrantRule1Done
    /\ pc = "dedupe"
    /\ HasCol(delivered_df, EVENT_VALUE)
    /\ \E k \in 1..Len(delivered_df.rows) :
          /\ delivered_df.rows[k][EVENT_VALUE] = Str(<<"1", "0", "0">>)
          /\ delivered_df.rows[k] \in Range(flagged_df.rows)

\* the identifier columns as resolved on the candidates
CandidateIds(cand) == ResolveIdCols(NormalizeColumns(cand))

\* both identifier fields are resolved in the candidate set and in the fraud set
BothIdsResolved(cand, fraud) ==
    /\ IdColsFound(CandidateIds(cand))
    /\ HasCol(NormalizeColumns(fraud), CandidateIds(cand).customer_id_col)
    /\ HasCol(NormalizeColumns(fraud), CandidateIds(cand).appsflyer_id_col)

\* the composite match key of a record: both identifiers cast to strings and
\* joined by "_"
CompositeKey(r, ids) ==
    PyStr(r[ids.customer_id_col]) \o <<"_">> \o PyStr(r[ids.appsflyer_id_col])

\* the candidates whose key is the key of no fraud record, in their order
KeptCandidates(cand, fraud) ==
    LET c == NormalizeColumns(cand)
        f == NormalizeColumns(fraud)
        ids == CandidateIds(cand)
    IN  SelectSeq(c.rows, LAMBDA r :
            \A k \in 1..Len(f.rows) : CompositeKey(f.rows[k], ids) # CompositeKey(r, ids))

\* the raw (non-temporary, non-derived) columns of the candidates
RawColumns(cand) ==
    Range(NormalizeColumns(cand).columns) \ {MATCH_KEY, EVENT_VALUE_STR, AGENCY_NORMALIZED}

\* rows restricted to the columns cols
Restrict(rows, cols) == [k \in 1..Len(rows) |-> [c \in cols |-> rows[k][c]]]

\* C5: when both identifier fields are resolved and the fraud set is not
\* empty, the dedupe step leaves exactly the candidates whose composite key
\* is the key of no fraud record, in their original order (Kikoff and Grant).
C5_DedupeExact ==
    [][ ( /\ pc = "dedupe"
          /\ ~IsEmpty(fraud_df)
          /\ BothIdsResolved(flagged_df, fraud_df) )
        => ( /\ raised' = "none"
             /\ Restrict(flagged_df'.rows, RawColumns(flagged_df))
                  = Restrict(KeptCandidates(flagged_df, fraud_df), RawColumns(flagged_df)) )
      ]_vars

\* the Kikoff dedupe has removed a flagged event and kept another
C5_Witness ==
    /\ app = "kikoff"
    /\ pc = "aggregate"
    /\ ~IsEmpty(fraud_df)
    /\ flagged_df.rows # <<>>
    /\ Len(flagged_df.rows) < Len(SeparateFlagged(delivered_df).rows)

\* C6: deduplicating the result of a deduplication against the same fraud
\* set changes nothing.
C6_DedupeIdempotent ==
    [][ (pc = "dedupe" /\ raised' = "none")
        => IF app = "kikoff"
           THEN LET again == kikoff_dedupe(flagged_df', fraud_df)
                IN  again.raised = "none" /\ again.flagged = flagged_df'
           ELSE LET again == grant_dedupe(flagged_df', fraud_df)
                IN  again.raised = "none" /\ again.addl = flagged_df'
      ]_vars

\* the Grant dedupe has removed a candidate and kept another
C6_Witness ==
    /\ app = "grant"
    /\ pc = "normalize"
    /\ HasCol(fraud_df, MATCH_KEY)
    /\ flagged_df.rows # <<>>
    /\ Len(flagged_df.rows) < Len(SelectSeq(delivered_df.rows, addl_fraud_mask))

\* an identifier field cannot be resolved in the candidate set or in the
\* fraud set
IdsUnresolved(cand, fraud) ==
    \/ ~IdColsFound(CandidateIds(cand))
    \/ ~IdColsFound(ResolveIdCols(NormalizeColumns(fraud)))

\* C7: if an identifier field cannot be resolved in the candidate set or in
\* the fraud set, deduplication is skipped: the candidates are returned
\* unmodified and no error is raised.
C7_DedupeDegradesToNoOp ==
    [][ (pc = "dedupe" /\ IdsUnresolved(flagged_df, fraud_df))
        => ( /\ raised' = "none"
             /\ Restrict(flagged_df'.rows, RawColumns(flagged_df))
                  = Restrict(NormalizeColumns(flagged_df).rows, RawColumns(flagged_df)) )
      ]_vars

\* the agencies a program leaves out of its aggregates besides "unknown"
ExcludedAgencies == IF app = "grant" THEN GRANT_EXCLUDED_AGENCIES ELSE {}

\* the records of df whose normalized agency is neither "unknown" nor excluded
CountedRecords(df) ==
    Cardinality({k \in 1..Len(df.rows) :
        /\ IsStr(df.rows[k][AGENCY_NORMALIZED])
        /\ df.rows[k][AGENCY_NORMALIZED].s \notin ({UNKNOWN} \cup ExcludedAgencies)})

RECURSIVE SumCounts(_)
SumCounts(agg) == IF agg = <<>> THEN 0 ELSE Head(agg).count + SumCounts(Tail(agg))

AggregateTotal(agg, df) ==
    /\ SumCounts(agg) = CountedRecords(df)
    /\ \A i \in 1..Len(agg) : agg[i].agency \notin ({UNKNOWN} \cup ExcludedAgencies)

\* C8: the per-agency counts of each aggregate sum to the number of input
\* records whose normalized agency is not "unknown" and not excluded, and no
\* row of an aggregate is for "unknown" or an excluded agency.
C8_AggregationTotal ==
    pc \in {"summarize", "done"} =>
        /\ AggregateTotal(delivered_agg, delivered_df)
        /\ AggregateTotal(fraud_agg, fraud_df)
        /\ AggregateTotal(flagged_agg, flagged_df)

\* a delivered set with an "unknown" record has been aggregated to some rows
C8_Witness ==
    /\ pc = "summarize"
    /\ delivered_agg # <<>>
    /\ \E k \in 1..Len(delivered_df.rows) :
          delivered_df.rows[k][AGENCY_NORMALIZED] = Str(UNKNOWN)

\* C9: in every Summary row net_valid = delivered - fraud - flagged, negative
\* when fraud + flagged exceeds delivered.
C9_NetValid ==
    pc = "done" =>
        \A i \in 1..Len(summary_df) :
            /\ summary_df[i].net_valid
                 = summary_df[i].delivered - summary_df[i].fraud - summary_df[i].flagged
            /\ summary_df[i].fraud + summary_df[i].flagged > summary_df[i].delivered
                 => summary_df[i].net_valid < 0

\* a Summary row with more fraud than delivered events has a negative net_valid
C9_Witness ==
    /\ pc = "done"
    /\ \E i \in 1..Len(summary_df) :
          /\ summary_df[i].fraud > summary_df[i].delivered
          /\ summary_df[i].net_valid < 0

\* the agencies of an aggregate
AgenciesOf(agg) == {agg[i].agency : i \in 1..Len(agg)}

\* C10: every agency of the delivered aggregate is in exactly one Summary
\* row, and a row whose agency is missing from the fraud (flagged) aggregate
\* has the count 0 in that column.
C10_LeftJoin ==
    pc = "done" =>
        /\ \A a \in AgenciesOf(delivered_agg) :
              Cardinality({i \in 1..Len(summary_df) : summary_df[i].agency = a}) = 1
        /\ \A i \in 1..Len(summary_df) :
              /\ summary_df[i].agency \in AgenciesOf(delivered_agg)
              /\ summary_df[i].agency \notin AgenciesOf(fraud_agg) => summary_df[i].fraud = 0
              /\ summary_df[i].agency \notin AgenciesOf(flagged_agg) => summary_df[i].flagged = 0

\* a Summary row for an agency that the non-empty fraud aggregate does not have
C10_Witness ==
    /\ pc = "done"
    /\ fraud_agg # <<>>
    /\ \E i \in 1..Len(summary_df) :
          /\ summary_df[i].agency \notin AgenciesOf(fraud_agg)
          /\ summary_df[i].fraud = 0

\* C11: the rows of the Summary are in non-increasing order of delivered
\* count, as are the rows of the delivered aggregate it is built from.
C11_SummaryOrdering ==
    pc = "done" =>
        /\ \A i \in 1..(Len(summary_df) - 1) :
              summary_df[i].delivered >= summary_df[i + 1].delivered
        /\ \A i \in 1..(Len(delivered_agg) - 1) :
              delivered_agg[i].count >= delivered_agg[i + 1].count

\* a Summary of two agencies with different delivered counts
C11_Witness ==
    /\ pc = "done"
    /\ Len(summary_df) >= 2
    /\ summary_df[1].delivered > summary_df[2].delivered

\* C12: a stage given an empty event set gives an empty result and raises
\* nothing, and while the delivered and the fraud set of a run are both
\* empty the flagged set, the three aggregates and the Summary are empty.
C12_EmptyTolerance ==
    [][ /\ (pc = "flag" /\ IsEmpty(delivered_df))
            => (IsEmpty(delivered_df') /\ IsEmpty(flagged_df') /\ raised' = "none")
        /\ (pc = "separate" /\ IsEmpty(delivered_df)) => IsEmpty(flagged_df')
        /\ (pc = "dedupe" /\ IsEmpty(flagged_df))
            => (IsEmpty(flagged_df') /\ raised' = "none")
        /\ pc = "normalize" =>
              /\ IsEmpty(delivered_df) => IsEmpty(delivered_df')
              /\ IsEmpty(fraud_df) => IsEmpty(fraud_df')
              /\ IsEmpty(flagged_df) => IsEmpty(flagged_df')
        /\ pc = "aggregate" =>
              /\ IsEmpty(delivered_df) => delivered_agg' = <<>>
              /\ IsEmpty(fraud_df) => fraud_agg' = <<>>
              /\ IsEmpty(flagged_df) => flagged_agg' = <<>>
        /\ (pc = "summarize" /\ delivered_agg = <<>>) => summary_df' = <<>>
        /\ (pc # "pull" /\ IsEmpty(delivered_df') /\ IsEmpty(fraud_df'))
            => /\ raised' = "none"
               /\ pc' # "raised"
               /\ IsEmpty(flagged_df')
               /\ delivered_agg' = <<>> /\ fraud_agg' = <<>> /\ flagged_agg' = <<>>
               /\ summary_df' = <<>>
      ]_vars

\* a run that pulled nothing at all has reached its empty Summary
C12_Witness ==
    /\ pc = "done"
    /\ delivered_df.rows = <<>>
    /\ fraud_df = EmptyFrame
    /\ flagged_df = EmptyFrame
    /\ summary_df = <<>>
    /\ raised = "none"

\* the normalized agency the record r of df is said to have: "unknown" when
\* the agency field is absent, missing or empty after trimming, else the
\* trimmed, lower-cased source value
ClaimedAgency(df, r) ==
    LET present == {i \in 1..Len(AgencyCandidates) : HasCol(df, AgencyCandidates[i])}
        col == AgencyCandidates[CHOOSE i \in present : \A j \in present : i <= j]
    IN  IF present = {} THEN Str(UNKNOWN)
        ELSE IF ~IsStr(r[col]) THEN Str(UNKNOWN)
        ELSE IF Strip(r[col].s) = <<>> THEN Str(UNKNOWN)
        ELSE Str(LowerStr(Strip(r[col].s)))

AgencyAsClaimed(df) ==
    HasCol(df, AGENCY_NORMALIZED) =>
        \A k \in 1..Len(df.rows) : df.rows[k][AGENCY_NORMALIZED] = ClaimedAgency(df, df.rows[k])

\* C13: agency_normalized is the trimmed, lower-cased agency source value,
\* and "unknown" when the source field is absent, missing, empty or
\* whitespace-only; no Summary row has an empty agency name.
C13_AgencyNormalization ==
    /\ AgencyAsClaimed(delivered_df)
    /\ AgencyAsClaimed(fraud_df)
    /\ AgencyAsClaimed(flagged_df)
    /\ \A i \in 1..Len(summary_df) : summary_df[i].agency # <<>>

\* C14: the lookback_hours of every record is non-negative, whatever the raw
\* lookback value (also one with a leading minus sign).
C14_LookbackNonNegative ==
    /\ IsNum(hours) => hours.n >= 0
    /\ KikoffFlagged =>
          \A k \in 1..Len(delivered_df.rows) : delivered_df.rows[k][LOOKBACK_HOURS].n >= 0

\* the returned tables of a run are the frames from the aggregation on
RunResult == pc \in {"aggregate", "summarize", "done"}

\* C15: in the result of a run every record of the flagged set (Kikoff
\* outside-attribution events, Grant additional-fraud events) is a record of
\* the returned delivered set, field by field, with the same normalized agency.
C15_FlaggedSubsetOfDelivered ==
    RunResult =>
        \A k \in 1..Len(flagged_df.rows) :
            /\ HasCol(flagged_df, AGENCY_NORMALIZED)
            /\ \E j \in 1..Len(delivered_df.rows) :
                  \A c \in Range(flagged_df.columns) :
                      /\ HasCol(delivered_df, c)
                      /\ flagged_df.rows[k][c] = delivered_df.rows[j][c]

\* a Grant run has returned fewer additional-fraud events than delivered ones
C15_Witness ==
    /\ app = "grant"
    /\ pc = "done"
    /\ flagged_df.rows # <<>>
    /\ Len(flagged_df.rows) < Len(delivered_df.rows)

\* the candidate of least index in cands that is a field name of df, <<>>
\* when none is
ResolvedField(df, cands) ==
    LET present == {i \in 1..Len(cands) : cands[i] \in Range(df.columns)}
    IN  IF present = {} THEN <<>>
        ELSE cands[CHOOSE i \in present : \A j \in present : i <= j]

\* agency_normalized of df is derived from the resolved agency field
AgencyFromResolved(df) ==
    HasCol(df, AGENCY_NORMALIZED) =>
        LET col == ResolvedField(df, AgencyCandidates)
        IN  \A k \in 1..Len(df.rows) :
                df.rows[k][AGENCY_NORMALIZED]
                    = IF col = <<>> THEN Str(UNKNOWN) ELSE NormalizeCell(df.rows[k][col], UNKNOWN)

\* C17: the agency, touch-type, lookback and monetary-value fields are each
\* read from the first name of their candidate list that is among the
\* normalized field names, whatever the order of the columns, and from no
\* field when no candidate is present.
C17_OrderedCandidates ==
    /\ AgencyFromResolved(delivered_df)
    /\ AgencyFromResolved(fraud_df)
    /\ AgencyFromResolved(flagged_df)
    /\ KikoffFlagged =>
          LET tt == ResolvedField(delivered_df, TouchTypeCandidates)
              lb == ResolvedField(delivered_df, LookbackCandidates)
          IN  \A k \in 1..Len(delivered_df.rows) :
                  LET r == delivered_df.rows[k]
                  IN  /\ r[TOUCH_TYPE_NORMALIZED]
                            = IF tt = <<>> THEN Str(UNKNOWN) ELSE NormalizeCell(r[tt], <<>>)
                      /\ r[LOOKBACK_HOURS]
                            = IF lb = <<>> THEN Num(0) ELSE Num(parse_lookback_to_hours(r[lb]))
    /\ (app = "grant" /\ pc \notin {"pull", "flag"}) =>
          LET ev == ResolvedField(delivered_df, EventValueCandidates)
          IN  IF ev = <<>> THEN ~HasCol(delivered_df, EVENT_VALUE_STR) /\ IsEmpty(flagged_df)
              ELSE \A k \in 1..Len(delivered_df.rows) :
                      delivered_df.rows[k][EVENT_VALUE_STR]
                          = Str(ValueText(delivered_df.rows[k][ev]))

\* a record whose media_source column comes before its agency column has
\* been given the agency of the agency column
C17_Witness ==
    /\ KikoffFlagged
    /\ HasCol(delivered_df, AGENCY) /\ HasCol(delivered_df, MEDIA_SOURCE)
    /\ HasCol(delivered_df, EVENT_VALUE)
    /\ delivered_df.columns[1] = REVENUE
    /\ \E k \in 1..Len(delivered_df.rows) :
          /\ delivered_df.rows[k][AGENCY_NORMALIZED] = Str(ADPERIOMEDIA)
          /\ delivered_df.rows[k][TOUCH_TYPE_NORMALIZED] = Str(IMPRESSION)
          /\ delivered_df.rows[k][LOOKBACK_HOURS] = Num(6)

\* df with its columns i and j in each other's place
SwapColumns(df, i, j) ==
    [df EXCEPT !.columns = [n \in 1..Len(df.columns) |->
                               IF n = i THEN df.columns[j]
                               ELSE IF n = j THEN df.columns[i] ELSE df.columns[n]]]

\* what the dedupe of the running program leaves of the candidates cand
DedupeOutcome(cand, fraud) ==
    LET r == IF app = "kikoff" THEN kikoff_dedupe(cand, fraud) ELSE grant_dedupe(cand, fraud)
        kept == IF app = "kikoff" THEN r.flagged ELSE r.addl
    IN  [rows |-> Restrict(kept.rows, RawColumns(cand)), raised |-> r.raised]

\* C18: the customer and vendor identifier fields of the match key are
\* chosen by candidate order and not by the order of the record set's
\* columns: the dedupe of the same records with two columns exchanged has
\* the same outcome.
C18_IdentifierResolution ==
    [][ pc = "dedupe" =>
          \A i, j \in 1..Len(flagged_df.columns) :
              DedupeOutcome(SwapColumns(flagged_df, i, j), fraud_df)
                  = [rows |-> Restrict(flagged_df'.rows, RawColumns(flagged_df)),
                     raised |-> raised']
      ]_vars

\* C19: when a logical field cannot be resolved the flagging goes on and
\* every record takes the default: agency_normalized = "unknown",
\* touch_type_normalized = "" and lookback_hours = 0.
C19_ResolutionDefaults ==
    KikoffFlagged =>
        \A k \in 1..Len(delivered_df.rows) :
            LET r == delivered_df.rows[k]
            IN  /\ ResolvedField(delivered_df, AgencyCandidates) = <<>>
                      => r[AGENCY_NORMALIZED] = Str(UNKNOWN)
                /\ ResolvedField(delivered_df, TouchTypeCandidates) = <<>>
                      => r[TOUCH_TYPE_NORMALIZED] = Str(<<>>)
                /\ ResolvedField(delivered_df, LookbackCandidates) = <<>>
                      => r[LOOKBACK_HOURS] = Num(0)

\* every field name of old is a field name of new, and every record keeps
\* the value it had in each of those fields
RawDataKept(old, new) ==
    /\ Len(new.rows) = Len(old.rows)
    /\ \A c \in Range(old.columns) :
          /\ HasCol(new, c)
          /\ \A k \in 1..Len(old.rows) : new.rows[k][c] = old.rows[k][c]

StageOf(p) ==
    CASE p = "pull" -> 1
      [] p = "normalize" -> 2
      [] p = "flag" -> 3
      [] p = "separate" -> 3
      [] p = "dedupe" -> 4
      [] p = "aggregate" -> 5
      [] p = "summarize" -> 6
      [] OTHER -> 7

\* the agency of every record of df has been normalized
AgencyNormalized(df) == IsEmpty(df) \/ HasCol(df, AGENCY_NORMALIZED)

\* C21: a run passes through PULL, NORMALIZE, FLAG, DEDUPE, AGGREGATE,
\* SUMMARIZE in this order: no step goes back to an earlier stage, and a step
\* that ends flagging or deduplication leaves a delivered set whose agency
\* is already normalized.
C21_StageOrdering ==
    [][ /\ StageOf(pc) <= StageOf(pc')
        /\ (StageOf(pc) = 3 \/ StageOf(pc) = 4) => AgencyNormalized(delivered_df')
      ]_vars

\* C22: a report source that fails, by a non-success response, a blank body
\* or a network error, counts as an empty record set: the pull step raises
\* nothing and the run goes on to the next stage with the record sets of
\* the remaining sources instead of aborting.
C22_CollaboratorFailure ==
    [][ pc = "pull" => (raised' = "none" /\ pc' = "flag") ]_vars

\* C23: in every row of the Summary of either program delivered is at least
\* 1, flagged lies between 0 and delivered, and fraud is at least 0 (fraud
\* is not bounded by delivered).
C23_SummaryRowBounds ==
    pc = "done" =>
        \A i \in 1..Len(summary_df) :
            /\ summary_df[i].delivered >= 1
            /\ 0 <= summary_df[i].flagged
            /\ summary_df[i].flagged <= summary_df[i].delivered
            /\ 0 <= summary_df[i].fraud

\* a finished run of each kind the claim speaks of: a Summary row whose
\* fraud count exceeds its delivered count and whose flagged count is
\* positive
C23_Witness ==
    /\ pc = "done"
    /\ \E i \in 1..Len(summary_df) :
          /\ summary_df[i].fraud > summary_df[i].delivered
          /\ summary_df[i].flagged >= 1

\* r and s have the same string-cast customer id and the same string-cast
\* vendor id
SameIdentifiers(r, s, ids) ==
    /\ PyStr(r[ids.customer_id_col]) = PyStr(s[ids.customer_id_col])
    /\ PyStr(r[ids.appsflyer_id_col]) = PyStr(s[ids.appsflyer_id_col])

\* C24: composite match keys are equal only for records with equal
\* string-cast customer ids and equal string-cast vendor ids, so a
\* deduplication step removes no candidate unless some fraud record has both
\* of its identifiers.
C24_MatchKeyInjective ==
    [][ (pc = "dedupe" /\ ~IsEmpty(flagged_df) /\ ~IsEmpty(fraud_df)) =>
          LET ids == ResolveIdCols(flagged_df)
          IN  (IdColsFound(ids) /\ ~FraudKeyError(fraud_df, ids)) =>
                \A k \in 1..Len(flagged_df.rows) :
                    LET r == flagged_df.rows[k]
                    IN  \/ \E j \in 1..Len(fraud_df.rows) :
                              SameIdentifiers(r, fraud_df.rows[j], ids)
                        \/ \E m \in 1..Len(flagged_df'.rows) :
                              SameIdentifiers(r, flagged_df'.rows[m], ids)
      ]_vars

\* df has neither of the temporary fields
NoTempFields(df) == ~HasCol(df, MATCH_KEY) /\ ~HasCol(df, EVENT_VALUE_STR)

\* C25: the delivered, fraud and flagged event sets a program run returns
\* contain neither `_match_key` nor `_event_value_str`, whichever branch of
\* the deduplication was taken.
C25_NoTempFieldLeaks ==
    pc = "done" =>
        /\ NoTempFields(delivered_df)
        /\ NoTempFields(fraud_df)
        /\ NoTempFields(flagged_df)

====
